---------------------------- MODULE Spec2Model ----------------------------
(***************************************************************************)
(* A model of the document reflow and syntax-highlighting engine of        *)
(* src/services/pdfService.ts (PdfService.cleanText, parseContent,         *)
(* calculateLayout, renderCodeLine, generatePdf) and of the processing     *)
(* run of src/App.tsx that feeds it.                                       *)
(*                                                                         *)
(* Text is held as a sequence of one-character strings, indexed from 1;    *)
(* the source's 0-based indices (i, k, j, lastIndex, match.index) are kept *)
(* 0-based, and CharAt reads line[i] the way JavaScript does (an index     *)
(* outside the string yields undefined).                                   *)
(***************************************************************************)
EXTENDS Integers, Sequences, FiniteSets, TLC

VARIABLES
    \* renderCodeLine: the line being rendered, the scan index i, the pen
    \* position x (in character cells of the fixed-width font), the text
    \* colour currently set on the document, and the doc.text calls made.
    line, i, x, textColor, drawn,
    \* parseContent: the page text, cleanText's result, the blocks pushed,
    \* the index after the last match, and where the call stands.
    text, cleanedText, blocks, lastIndex, parsePc,
    \* calculateLayout: its blocks and maxHeight arguments, the answers of
    \* doc.splitTextToSize at each font scale, the locals scale and measured,
    \* the LayoutResult returned, and where the call stands.
    layoutBlocks, maxHeight, oracle, scale, measured, layout, layoutPc,
    \* generatePdf: its argument, the jsPDF document, the index of forEach,
    \* and where the call stands.
    pagesText, doc, pageIndex, pdfPc,
    \* App: the React state, the await the handler in progress stands at, and
    \* the locals of processPdf and processImages.
    files, pdfDoc, status, finalPdfBlob, showOcrConfirm, appPc, mode, inputs,
    processedTexts,
    \* FileUpload: the FileList of the last change or drop event handled.
    selected

tokVars == <<line, i, x, textColor, drawn>>
parseVars == <<text, cleanedText, blocks, lastIndex, parsePc>>
layoutVars == <<layoutBlocks, maxHeight, oracle, scale, measured, layout, layoutPc>>
pdfVars == <<pagesText, doc, pageIndex, pdfPc>>
appVars == <<files, pdfDoc, status, finalPdfBlob, showOcrConfirm, appPc, mode,
             inputs, processedTexts, selected>>
vars == <<tokVars, parseVars, layoutVars, pdfVars, appVars>>

(***************************************************************************)
(* Characters                                                              *)
(***************************************************************************)
LowerAF == {"a", "b", "c", "d", "e", "f"}
UpperAF == {"A", "B", "C", "D", "E", "F"}
Lower == LowerAF \cup {"g", "h", "i", "j", "k", "l", "m", "n", "o", "p", "q",
                       "r", "s", "t", "u", "v", "w", "x", "y", "z"}
Upper == UpperAF \cup {"G", "H", "I", "J", "K", "L", "M", "N", "O", "P", "Q",
                       "R", "S", "T", "U", "V", "W", "X", "Y", "Z"}
Digit == {"0", "1", "2", "3", "4", "5", "6", "7", "8", "9"}

\* /[a-zA-Z_]/
IsIdentStart(c) == c \in Lower \cup Upper \cup {"_"}
\* /[a-zA-Z0-9_]/  (also \w)
IsWordChar(c) == c \in Lower \cup Upper \cup Digit \cup {"_"}
\* /[0-9.xXa-fA-F]/
IsNumberChar(c) == c \in Digit \cup {".", "x", "X"} \cup LowerAF \cup UpperAF
\* /\s/ restricted to the white space the model's texts contain
IsSpace(c) == c \in {" ", "\t", "\n"}

\* The backquote character (code unit 96).  A string of this module cannot
\* hold it, so the texts of the model hold this value in its place; it is no
\* letter, digit or white space, and no text of the model spells it out.
Backtick == "BACKTICK"

\* what line[k] yields for an index outside the string
Undefined == "undefined"

\* the three backquotes of a fence
Fence == <<Backtick, Backtick, Backtick>>
CharAt(s, k) == IF k >= 0 /\ k < Len(s) THEN s[k + 1] ELSE Undefined

\* s.substring(a, b): both indices clamped to 0..length and swapped when
\* a > b, then the characters at 0-based positions a .. b-1
Clamp(s, k) == IF k < 0 THEN 0 ELSE IF k > Len(s) THEN Len(s) ELSE k
Substring(s, a, b) ==
    LET ca == Clamp(s, a)
        cb == Clamp(s, b)
    IN  IF ca <= cb THEN SubSeq(s, ca + 1, cb) ELSE SubSeq(s, cb + 1, ca)

\* a character sequence as one string (token += c, repeated)
RECURSIVE Join(_)
Join(s) == IF s = <<>> THEN "" ELSE Head(s) \o Join(Tail(s))

RECURSIVE Flatten(_)
Flatten(ss) == IF ss = <<>> THEN <<>> ELSE Head(ss) \o Flatten(Tail(ss))

MinOf(S) == CHOOSE m \in S : \A n \in S : m <= n

MaxOf(S) == CHOOSE m \in S : \A n \in S : m >= n

(***************************************************************************)
(* SYNTAX_COLORS and KEYWORDS                                              *)
(***************************************************************************)
SYNTAX_COLORS == {"keyword", "function", "string", "number", "comment", "default"}

KEYWORDS ==
    {"auto", "break", "case", "char", "const", "continue", "default", "do",
     "double", "else", "enum", "extern", "float", "for", "goto", "if", "int",
     "long", "register", "return", "short", "signed", "sizeof", "static",
     "struct", "switch", "typedef", "union", "unsigned", "void", "volatile",
     "while", "bool", "catch", "class", "const_cast", "delete",
     "dynamic_cast", "explicit", "export", "false", "friend", "inline",
     "mutable", "namespace", "new", "operator", "private", "protected",
     "public", "reinterpret_cast", "static_cast", "template", "this", "throw",
     "true", "try", "typeid", "typename", "using", "virtual", "wchar_t",
     "nullptr", "#include", "#define", "#ifdef", "#endif", "#ifndef",
     "#pragma", "std", "vector", "string", "map", "list"}

(***************************************************************************)
(* renderCodeLine: the inner scanning loops                                *)
(***************************************************************************)
\* ScanString with the escape test left out: any later quote closes
RECURSIVE ScanStringNoEscape(_, _, _)
ScanStringNoEscape(s, k, quote) ==
    IF k < Len(s)
    THEN IF CharAt(s, k) = quote
         THEN k + 1
         ELSE ScanStringNoEscape(s, k + 1, quote)
    ELSE k

\* ScanString as a do-while: the body runs once more at the end of the line
RECURSIVE ScanStringOverrun(_, _, _)
ScanStringOverrun(s, k, quote) ==
    IF k < Len(s) /\ ~(CharAt(s, k) = quote /\ CharAt(s, k - 1) # "\\")
    THEN ScanStringOverrun(s, k + 1, quote)
    ELSE k + 1

\* while (i < len) { c = line[i]; token += c; i++;
\*                   if (c === quote && line[i - 2] !== '\\') break; }
\* from index k (just past the opening quote); yields the index after the loop
RECURSIVE ScanString(_, _, _)
ScanString(s, k, quote) ==
    IF k < Len(s)
    THEN IF CharAt(s, k) = quote /\ CharAt(s, k - 1) # "\\"
         THEN k + 1
         ELSE ScanString(s, k + 1, quote)
    ELSE k

\* while (i < len && /[a-zA-Z0-9_]/.test(line[i])) { token += line[i]; i++; }
RECURSIVE ScanWord(_, _)
ScanWord(s, k) ==
    IF k < Len(s) /\ IsWordChar(CharAt(s, k)) THEN ScanWord(s, k + 1) ELSE k

\* while (k < len && /\s/.test(line[k])) k++;
RECURSIVE SkipSpace(_, _)
SkipSpace(s, k) ==
    IF k < Len(s) /\ IsSpace(CharAt(s, k)) THEN SkipSpace(s, k + 1) ELSE k

\* ScanHeader without  if (i < len) { token += '>'; i++; }
RECURSIVE ScanHeaderOpen(_, _)
ScanHeaderOpen(s, k) ==
    IF k < Len(s) /\ CharAt(s, k) # ">" THEN ScanHeaderOpen(s, k + 1) ELSE k

\* while (i < len && line[i] !== '>') { token += line[i]; i++; }
\* if (i < len) { token += '>'; i++; }
RECURSIVE ScanHeader(_, _)
ScanHeader(s, k) ==
    IF k < Len(s)
    THEN IF CharAt(s, k) # ">" THEN ScanHeader(s, k + 1) ELSE k + 1
    ELSE k

\* while (i < len && /[0-9.xXa-fA-F]/.test(line[i])) { token += line[i]; i++; }
RECURSIVE ScanNumber(_, _)
ScanNumber(s, k) ==
    IF k < Len(s) /\ IsNumberChar(CharAt(s, k)) THEN ScanNumber(s, k + 1) ELSE k


(***************************************************************************)
(* renderCodeLine: one iteration of  while (i < len)  per action, one      *)
(* action per branch of the if / else-if chain.                            *)
(***************************************************************************)
\* doc.setTextColor(color); doc.text(token, x, y); x += doc.getTextWidth(token)
\* for the token line.substring(from, to); the scan index becomes to
RenderToken(from, to, color) ==
    /\ textColor' = color
    /\ drawn' = Append(drawn, [text |-> Join(Substring(line, from, to)),
                               color |-> color, x |-> x])
    /\ x' = x + (to - from)
    /\ i' = to
    /\ UNCHANGED <<line, parseVars, layoutVars, pdfVars, appVars>>

\* 1. char === '/' && line[i + 1] === '/'   or   ... === '*'
IsCommentStart(s, k) ==
    CharAt(s, k) = "/" /\ (CharAt(s, k + 1) = "/" \/ CharAt(s, k + 1) = "*")

RenderComment ==
    /\ i < Len(line)
    /\ IsCommentStart(line, i)
    /\ RenderToken(i, Len(line), "comment")

\* 2. char === '"' || char === "'"
IsQuote(c) == c = "\"" \/ c = "'"

RenderString ==
    /\ i < Len(line)
    /\ ~IsCommentStart(line, i)
    /\ IsQuote(CharAt(line, i))
    /\ RenderToken(i, ScanString(line, i + 1, CharAt(line, i)), "string")

\* 3. char === '#': the directive name, and the  #include <...>  path, which
\* draws three times in one iteration: the directive in the keyword colour,
\* the spacing with the colour left set, the header in the string colour.
IsIncludeHeader(s, k) ==
    LET e == ScanWord(s, k + 1)
        h == SkipSpace(s, e)
    IN  Join(Substring(s, k, e)) = "#include" /\ h < Len(s) /\ CharAt(s, h) = "<"

\* IncludeDraws without the doc.text call for the spacing
IncludeDrawsNoSpacing(s, k, x0) ==
    LET e == ScanWord(s, k + 1)
        h == SkipSpace(s, e)
        g == ScanHeader(s, h)
    IN  << [text |-> Join(Substring(s, k, e)), color |-> "keyword", x |-> x0],
           [text |-> Join(Substring(s, h, g)), color |-> "string",
            x |-> x0 + (e - k)] >>

\* the three doc.text calls of the  #include <...>  path, for the directive
\* at index k with the pen at x0: directive, spacing, header
IncludeDraws(s, k, x0) ==
    LET e == ScanWord(s, k + 1)
        h == SkipSpace(s, e)
        g == ScanHeader(s, h)
    IN  << [text |-> Join(Substring(s, k, e)), color |-> "keyword", x |-> x0],
           [text |-> Join(Substring(s, e, h)), color |-> "keyword",
            x |-> x0 + (e - k)],
           [text |-> Join(Substring(s, h, g)), color |-> "string",
            x |-> x0 + (h - k)] >>

RenderDirective ==
    /\ i < Len(line)
    /\ ~IsCommentStart(line, i)
    /\ ~IsQuote(CharAt(line, i))
    /\ CharAt(line, i) = "#"
    /\ LET e == ScanWord(line, i + 1)
           g == ScanHeader(line, SkipSpace(line, e))
       IN  IF IsIncludeHeader(line, i)
           THEN /\ textColor' = "string"
                /\ drawn' = drawn \o IncludeDraws(line, i, x)
                /\ x' = x + (g - i)
                /\ i' = g
                /\ UNCHANGED <<line, parseVars, layoutVars, pdfVars, appVars>>
           ELSE RenderToken(i, e, "keyword")

\* 4. /[0-9]/.test(char)
RenderNumber ==
    /\ i < Len(line)
    /\ ~IsCommentStart(line, i)
    /\ ~IsQuote(CharAt(line, i))
    /\ CharAt(line, i) # "#"
    /\ CharAt(line, i) \in Digit
    /\ RenderToken(i, ScanNumber(line, i), "number")

\* 5. /[a-zA-Z_]/.test(char): keyword, function (next non-space is '('), default
\* the lookahead for '(' taken before the keyword test
IdentifierColorLookaheadFirst(s, from, to) ==
    LET j == SkipSpace(s, to)
    IN  IF j < Len(s) /\ CharAt(s, j) = "(" THEN "function"
        ELSE IF Join(Substring(s, from, to)) \in KEYWORDS THEN "keyword"
        ELSE "default"

IdentifierColor(s, from, to) ==
    IF Join(Substring(s, from, to)) \in KEYWORDS
    THEN "keyword"
    ELSE LET j == SkipSpace(s, to)
         IN  IF j < Len(s) /\ CharAt(s, j) = "(" THEN "function" ELSE "default"

RenderIdentifier ==
    /\ i < Len(line)
    /\ ~IsCommentStart(line, i)
    /\ ~IsQuote(CharAt(line, i))
    /\ CharAt(line, i) # "#"
    /\ CharAt(line, i) \notin Digit
    /\ IsIdentStart(CharAt(line, i))
    /\ LET e == ScanWord(line, i)
       IN  RenderToken(i, e, IdentifierColor(line, i, e))

\* branch 6 taking two characters at a time
RenderOtherPair ==
    /\ i < Len(line)
    /\ ~IsCommentStart(line, i)
    /\ ~IsQuote(CharAt(line, i))
    /\ CharAt(line, i) # "#"
    /\ CharAt(line, i) \notin Digit
    /\ ~IsIdentStart(CharAt(line, i))
    /\ RenderToken(i, MinOf({i + 2, Len(line)}), "default")

\* 6. anything else: token = char; i++
RenderOther ==
    /\ i < Len(line)
    /\ ~IsCommentStart(line, i)
    /\ ~IsQuote(CharAt(line, i))
    /\ CharAt(line, i) # "#"
    /\ CharAt(line, i) \notin Digit
    /\ ~IsIdentStart(CharAt(line, i))
    /\ RenderToken(i, i + 1, "default")


(***************************************************************************)
(* cleanText: eight String.replace passes, each over the result of the     *)
(* one before                                                              *)
(***************************************************************************)
StartsWith(s, pat) == Len(s) >= Len(pat) /\ SubSeq(s, 1, Len(pat)) = pat

DropFirst(s, n) == SubSeq(s, n + 1, Len(s))

\* s.replace(/pat/g, rep) for a literal pattern: left to right, the scan
\* resuming after each replaced occurrence
RECURSIVE ReplaceAll(_, _, _)
ReplaceAll(s, pat, rep) ==
    LET found == { p \in 0..(Len(s) - Len(pat)) : StartsWith(DropFirst(s, p), pat) }
    IN  IF found = {} THEN s
        ELSE SubSeq(s, 1, MinOf(found)) \o rep
             \o ReplaceAll(DropFirst(s, MinOf(found) + Len(pat)), pat, rep)

HexDigit == Digit \cup LowerAF \cup UpperAF

DigitValue(c) ==
    CASE c = "0" -> 0 [] c = "1" -> 1 [] c = "2" -> 2 [] c = "3" -> 3
      [] c = "4" -> 4 [] c = "5" -> 5 [] c = "6" -> 6 [] c = "7" -> 7
      [] c = "8" -> 8 [] c = "9" -> 9
      [] c \in {"a", "A"} -> 10 [] c \in {"b", "B"} -> 11
      [] c \in {"c", "C"} -> 12 [] c \in {"d", "D"} -> 13
      [] c \in {"e", "E"} -> 14 [] c \in {"f", "F"} -> 15

\* Number(dec) and parseInt(hex, 16), reduced as String.fromCharCode reduces
\* its argument (ToUint16)
RECURSIVE NumberValue(_, _, _)
NumberValue(ds, base, acc) ==
    IF ds = <<>> THEN acc
    ELSE NumberValue(Tail(ds), base, (acc * base + DigitValue(Head(ds))) % 65536)

\* String.fromCharCode for the code units the model's texts refer to
CharOfCode(n) ==
    CASE n = 9 -> "\t" [] n = 10 -> "\n" [] n = 32 -> " " [] n = 34 -> "\""
      [] n = 38 -> "&" [] n = 39 -> "'" [] n = 59 -> ";" [] n = 60 -> "<"
      [] n = 62 -> ">" [] n = 96 -> Backtick [] n = 97 -> "a" [] n = 108 -> "l"
      [] OTHER -> "?"

\* the length of the maximal run of characters of digits at the head of s
RECURSIVE DigitRun(_, _)
DigitRun(s, digits) ==
    IF s # <<>> /\ Head(s) \in digits THEN 1 + DigitRun(Tail(s), digits) ELSE 0

\* s.replace(/&#(\d+);/g, ...) with opener "&#", base 10, and
\* s.replace(/&#x([0-9a-fA-F]+);/g, ...) with opener "&#x", base 16
\* the number of digits of the reference that starts at index p of s, or 0
ReferenceAt(s, p, opener, digits) ==
    LET rest == DropFirst(s, p + Len(opener))
        n == DigitRun(rest, digits)
    IN  IF /\ StartsWith(DropFirst(s, p), opener)
           /\ n >= 1
           /\ Len(rest) > n
           /\ rest[n + 1] = ";"
        THEN n ELSE 0

RECURSIVE ReplaceNumeric(_, _, _, _)
ReplaceNumeric(s, opener, digits, base) ==
    LET found == { p \in 0..(Len(s) - 1) : ReferenceAt(s, p, opener, digits) > 0 }
        p == MinOf(found)
        n == ReferenceAt(s, p, opener, digits)
        rest == DropFirst(s, p + Len(opener))
    IN  IF found = {} THEN s
        ELSE SubSeq(s, 1, p)
             \o <<CharOfCode(NumberValue(SubSeq(rest, 1, n), base, 0))>>
             \o ReplaceNumeric(DropFirst(rest, n + 1), opener, digits, base)

CleanText(t) ==
    LET r1 == ReplaceAll(t, <<"&", "n", "b", "s", "p", ";">>, <<" ">>)
        r2 == ReplaceAll(r1, <<"&", "a", "m", "p", ";">>, <<"&">>)
        r3 == ReplaceAll(r2, <<"&", "l", "t", ";">>, <<"<">>)
        r4 == ReplaceAll(r3, <<"&", "g", "t", ";">>, <<">">>)
        r5 == ReplaceAll(r4, <<"&", "q", "u", "o", "t", ";">>, <<"\"">>)
        r6 == ReplaceAll(r5, <<"&", "#", "3", "9", ";">>, <<"'">>)
        r7 == ReplaceNumeric(r6, <<"&", "#">>, Digit, 10)
    IN  ReplaceNumeric(r7, <<"&", "#", "x">>, HexDigit, 16)

(***************************************************************************)
(* parseContent                                                            *)
(***************************************************************************)
\* s.trim()
RECURSIVE TrimStart(_)
TrimStart(s) == IF s # <<>> /\ IsSpace(Head(s)) THEN TrimStart(Tail(s)) ELSE s

RECURSIVE TrimEnd(_)
TrimEnd(s) ==
    IF s # <<>> /\ IsSpace(s[Len(s)]) THEN TrimEnd(SubSeq(s, 1, Len(s) - 1)) ELSE s

Trim(s) == TrimEnd(TrimStart(s))

\* match[1].replace(/\t/g, '    ')
ExpandTabs(s) == ReplaceAll(s, <<"\t">>, <<" ", " ", " ", " ">>)

\* codeSegment.replace(/^\n+|\n+$/g, ''): the newlines at the very start and
\* at the very end of the string
RECURSIVE StripLeadingNewlines(_)
StripLeadingNewlines(s) ==
    IF s # <<>> /\ Head(s) = "\n" THEN StripLeadingNewlines(Tail(s)) ELSE s

RECURSIVE StripTrailingNewlines(_)
StripTrailingNewlines(s) ==
    IF s # <<>> /\ s[Len(s)] = "\n"
    THEN StripTrailingNewlines(SubSeq(s, 1, Len(s) - 1))
    ELSE s

StripNewlines(s) == StripTrailingNewlines(StripLeadingNewlines(s))

\* The regular expression  /FFF(?:\w+)?\s*\n([\s\S]*?)FFF/g,  FFF standing
\* for the three backquotes of a fence.
\* three backticks at index p
FenceAt(s, p) ==
    /\ p >= 0
    /\ p + 3 <= Len(s)
    /\ s[p + 1] = Backtick /\ s[p + 2] = Backtick /\ s[p + 3] = Backtick

\* the greatest index in a .. b-1 that holds a newline, or -1: where the
\* greedy \s* gives back to let \n match
RECURSIVE LastNewline(_, _, _)
LastNewline(s, a, b) ==
    IF b <= a THEN -1
    ELSE IF CharAt(s, b - 1) = "\n" THEN b - 1 ELSE LastNewline(s, a, b - 1)

\* FindFence that takes the end of the text for a closing fence
FindFenceOrEnd(s, q) ==
    LET found == { k \in q..(Len(s) - 3) : FenceAt(s, k) }
    IN  IF found = {} THEN Len(s) ELSE MinOf(found)

\* the least index from q on that holds three backticks, or -1: where the
\* lazy [\s\S]*? stops
FindFence(s, q) ==
    LET found == { k \in q..(Len(s) - 3) : FenceAt(s, k) }
    IN  IF found = {} THEN -1 ELSE MinOf(found)

NoMatch == [index |-> -1, capStart |-> -1, capEnd |-> -1, lastIndex |-> 0]

\* the match that starts at index p, if there is one
MatchAt(s, p) ==
    IF ~FenceAt(s, p) THEN NoMatch
    ELSE LET w == ScanWord(s, p + 3)
             e == SkipSpace(s, w)
             n == LastNewline(s, w, e)
             q == FindFence(s, n + 1)
         IN  IF n < 0 \/ q < 0 THEN NoMatch
             ELSE [index |-> p, capStart |-> n + 1, capEnd |-> q,
                   lastIndex |-> q + 3]

\* regex.exec(s) with regex.lastIndex = from: the leftmost match from there
RegexExec(s, from) ==
    LET found == { p \in from..Len(s) : MatchAt(s, p).index >= 0 }
    IN  IF found = {} THEN NoMatch ELSE MatchAt(s, MinOf(found))

\* the body of the while loop for the match m: the blocks it pushes, in order
MatchBlocksCodeFirst(s, last, m) ==
    LET textSegment == Trim(Substring(s, last, m.index))
        cleanCode == StripNewlines(ExpandTabs(Substring(s, m.capStart, m.capEnd)))
    IN  (IF cleanCode # <<>>
         THEN << [type |-> "code", content |-> cleanCode] >> ELSE <<>>)
        \o (IF m.index > last /\ textSegment # <<>>
            THEN << [type |-> "text", content |-> textSegment] >> ELSE <<>>)

MatchBlocks(s, last, m) ==
    LET textSegment == Trim(Substring(s, last, m.index))
        cleanCode == StripNewlines(ExpandTabs(Substring(s, m.capStart, m.capEnd)))
    IN  (IF m.index > last /\ textSegment # <<>>
         THEN << [type |-> "text", content |-> textSegment] >> ELSE <<>>)
        \o (IF cleanCode # <<>>
            THEN << [type |-> "code", content |-> cleanCode] >> ELSE <<>>)

\* after the loop: the rest of the text
TailBlocks(s, last) ==
    LET textSegment == Trim(Substring(s, last, Len(s)))
    IN  IF last < Len(s) /\ textSegment # <<>>
        THEN << [type |-> "text", content |-> textSegment] >> ELSE <<>>

\* the loop and the tail, from regex.lastIndex = last
RECURSIVE ParseLoop(_, _)
ParseLoop(s, last) ==
    LET m == RegexExec(s, last)
    IN  IF m.index < 0 THEN TailBlocks(s, last)
        ELSE MatchBlocks(s, last, m) \o ParseLoop(s, m.lastIndex)

ParseContent(t) == ParseLoop(CleanText(t), 0)

\* parseContent step by step: the call of cleanText, one action per
\* iteration of the while loop, and the exit of the loop with the tail.
ParseClean ==
    /\ parsePc = "called"
    /\ cleanedText' = CleanText(text)
    /\ parsePc' = "loop"
    /\ UNCHANGED <<text, blocks, lastIndex, tokVars, layoutVars, pdfVars, appVars>>

ParseMatch ==
    /\ parsePc = "loop"
    /\ LET m == RegexExec(cleanedText, lastIndex)
       IN  /\ m.index >= 0
           /\ blocks' = blocks \o MatchBlocks(cleanedText, lastIndex, m)
           /\ lastIndex' = m.lastIndex
    /\ UNCHANGED <<text, cleanedText, parsePc, tokVars, layoutVars, pdfVars, appVars>>

ParseReturn ==
    /\ parsePc = "loop"
    /\ RegexExec(cleanedText, lastIndex).index < 0
    /\ blocks' = blocks \o TailBlocks(cleanedText, lastIndex)
    /\ parsePc' = "returned"
    /\ UNCHANGED <<text, cleanedText, lastIndex, tokVars, layoutVars, pdfVars, appVars>>

(***************************************************************************)
(* calculateLayout: the scale                                              *)
(*                                                                         *)
(* scale is an IEEE-754 double.  The model holds the doubles of [1/8, 1]   *)
(* exactly, as the integer v of value v * 2^-57 written in two limbs       *)
(* <<hi, lo>>, v = hi * 2^28 + lo, and subtracts as the hardware does: the *)
(* exact difference rounded to the nearest double, ties to even.           *)
(***************************************************************************)
Limb == 268435456

\* let scale = 1.0
ScaleOne == <<536870912, 0>>
\* const step = 0.05: the double nearest 0.05 is 7205759403792794 * 2^-57
ScaleStep == <<26843545, 161061274>>
\* const minScale = 0.65: the double nearest 0.65 is 5854679515581645 * 2^-53
MinScale == <<348966092, 214748368>>

\* a > b on doubles
DoubleGreater(a, b) == a[1] > b[1] \/ (a[1] = b[1] /\ a[2] > b[2])

\* the spacing of the doubles around the value <<hi, lo>>, in units of 2^-57
Ulp(hi) == IF hi >= Limb THEN 16 ELSE IF hi >= Limb \div 2 THEN 8 ELSE 4

\* a - b on doubles, for a >= b
DoubleMinus(a, b) ==
    LET borrow == IF a[2] < b[2] THEN 1 ELSE 0
        hi == a[1] - b[1] - borrow
        lo == a[2] - b[2] + borrow * Limb
        u == Ulp(hi)
        r == lo % u
        down == lo - r
        roundUp == 2 * r > u \/ (2 * r = u /\ (down \div u) % 2 = 1)
        lo2 == IF roundUp THEN down + u ELSE down
    IN  IF lo2 >= Limb THEN <<hi + 1, lo2 - Limb>> ELSE <<hi, lo2>>

\* The scale in hundredths, to the nearest hundredth.  Sizes and heights,
\* which are products with the scale, are taken at this value: they differ
\* from the doubles the code computes by less than 1e-12 pt.
Hundredths(sc) == ((sc[1] \div 1024) * 100 + 262144) \div 524288

(***************************************************************************)
(* calculateLayout: measureTotalHeight.  Lengths are in units of 1e-5 pt.  *)
(***************************************************************************)
\* units of length in one point
UnitsPerPt == 100000

\* const baseTextSize = 11, in tenths of a point
BaseTextSizeTenths == 110
\* const baseCodeSize = 9.5, in tenths of a point
BaseCodeSizeTenths == 95
\* const baseLineHeight = 1.35, in hundredths
BaseLineHeightHundredths == 135
\* const baseSpacing = 14
BaseSpacing == 14

\* textSz * baseLineHeight and codeSz * baseLineHeight
LineHeight(isCode, sc) ==
    (IF isCode THEN BaseCodeSizeTenths ELSE BaseTextSizeTenths)
        * Hundredths(sc) * BaseLineHeightHundredths

\* baseSpacing * scale
BlockSpacing(sc) == BaseSpacing * Hundredths(sc) * 1000

\* content.split('\n')
RECURSIVE SplitLines(_)
SplitLines(s) ==
    LET n == MinOf({ k \in 1..(Len(s) + 1) : k = Len(s) + 1 \/ s[k] = "\n" })
    IN  IF n = Len(s) + 1 THEN <<s>>
        ELSE <<SubSeq(s, 1, n - 1)>> \o SplitLines(SubSeq(s, n + 1, Len(s)))

\* doc.splitTextToSize, the measurement oracle.  What it answers depends on
\* the text and on the font and font size set on the document.  In the
\* model it gives one answer per font scale and font, chosen when the scale
\* is first measured: under the font of prose (times) and under the font
\* of code (courier) it either throws (width 0) or breaks every paragraph
\* of the text into lines of at most that many characters.
OracleAnswers ==
    { [text |-> 1, code |-> 2], [text |-> 3, code |-> 1],
      [text |-> 0, code |-> 2], [text |-> 2, code |-> 0] }

\* one paragraph in lines of w characters, the last one shorter; an empty
\* paragraph is one empty line
Chunks(s, w) ==
    IF Len(s) <= w THEN <<s>>
    ELSE [k \in 1..((Len(s) + w - 1) \div w) |->
             SubSeq(s, (k - 1) * w + 1, MinOf({k * w, Len(s)}))]

RECURSIVE WrapParagraphs(_, _)
WrapParagraphs(ps, w) ==
    IF ps = <<>> THEN <<>>
    ELSE Chunks(Head(ps), w) \o WrapParagraphs(Tail(ps), w)

SplitTextToSize(s, w) == WrapParagraphs(SplitLines(s), w)

\* the width the oracle answers with under the font of the block
WidthFor(block, answer) ==
    IF block.type = "code" THEN answer.code ELSE answer.text

\* a code block passed to splitTextToSize whole, like a text block
OracleCallsWhole(block) == <<block.content>>

\* the texts passed to splitTextToSize for one block, call by call: each
\* raw line of a code block, the whole content of a text block
OracleCalls(block) ==
    IF block.type = "code" THEN SplitLines(block.content) ELSE <<block.content>>

\* lines.push(...wrapped) over the calls cs, the oracle wrapping at width w
RECURSIVE WrapEach(_, _)
WrapEach(cs, w) ==
    IF cs = <<>> THEN <<>>
    ELSE SplitTextToSize(Head(cs), w) \o WrapEach(Tail(cs), w)

\* the lines of one block: what the oracle answered to its calls, in the
\* order of the calls
BlockLines(block, answer) == WrapEach(OracleCalls(block), WidthFor(block, answer))

\* what measureTotalHeight yields when splitTextToSize throws
MeasureThrew ==
    [threw |-> TRUE, total |-> 0, blocksWithLines |-> <<>>, calls |-> <<>>]

\* blocks.forEach((block, index) => ...) from the block at position n on,
\* with currentH as it stands
RECURSIVE MeasureBlocks(_, _, _, _, _)
MeasureBlocks(bs, n, answer, sc, currentH) ==
    IF n > Len(bs)
    THEN [threw |-> FALSE, total |-> currentH, blocksWithLines |-> <<>>,
          calls |-> <<>>]
    ELSE IF WidthFor(bs[n], answer) = 0 THEN MeasureThrew
    ELSE LET block == bs[n]
             lines == BlockLines(block, answer)
             h == Len(lines) * LineHeight(block.type = "code", sc)
             rest == MeasureBlocks(bs, n + 1, answer, sc,
                        currentH + h + (IF n < Len(bs) THEN BlockSpacing(sc) ELSE 0))
         IN  IF rest.threw THEN MeasureThrew
             ELSE [threw |-> FALSE, total |-> rest.total,
                   blocksWithLines |->
                       << [type |-> block.type, content |-> block.content,
                           lines |-> lines, height |-> h] >>
                       \o rest.blocksWithLines,
                   calls |-> <<OracleCalls(block)>> \o rest.calls]

\* measureTotalHeight(scale), the oracle answering with answer at this scale
MeasureTotalHeight(bs, answer, sc) == MeasureBlocks(bs, 1, answer, sc, 0)

\* while (measured.total < maxHeight && scale > minScale): the comparison
\* turned round
ShrinksWhenFits(m, sc, maxH) == m.total < maxH /\ DoubleGreater(sc, MinScale)

\* while (measured.total > maxHeight && scale > minScale)
ShrinksAgain(m, sc, maxH) == m.total > maxH /\ DoubleGreater(sc, MinScale)

\* return { blocks, textFontSize, codeFontSize, lineHeightFactor, spacing }
\* with the sizes in units of 1e-5 pt; the scale is kept beside them
LayoutResult(m, sc) ==
    [threw |-> FALSE,
     scale |-> sc,
     blocks |-> m.blocksWithLines,
     textFontSize |-> BaseTextSizeTenths * Hundredths(sc) * 100,
     codeFontSize |-> BaseCodeSizeTenths * Hundredths(sc) * 100,
     lineHeightFactor |-> BaseLineHeightHundredths,
     spacing |-> BlockSpacing(sc)]

\* no LayoutResult: before the return, and for ever when the oracle threw
NoLayout ==
    [threw |-> TRUE, scale |-> <<0, 0>>, blocks |-> <<>>, textFontSize |-> 0,
     codeFontSize |-> 0, lineHeightFactor |-> 0, spacing |-> 0]

\* the answer to the k-th measurement of a call whose oracle gave the
\* answers o; a measurement the oracle gave no answer to throws
AnswerAt(o, k) == IF k <= Len(o) THEN o[k] ELSE [text |-> 0, code |-> 0]

\* the loop from its k-th measurement m, taken at scale sc, to the return
RECURSIVE LayoutLoop(_, _, _, _, _, _)
LayoutLoop(bs, maxH, o, k, sc, m) ==
    IF m.threw THEN NoLayout
    ELSE IF ShrinksAgain(m, sc, maxH)
         THEN LayoutLoop(bs, maxH, o, k + 1, DoubleMinus(sc, ScaleStep),
                  MeasureTotalHeight(bs, AnswerAt(o, k + 1),
                                     DoubleMinus(sc, ScaleStep)))
         ELSE LayoutResult(m, sc)

\* calculateLayout(doc, blocks, maxWidth, maxHeight), the oracle answering
\* the successive measurements with o
CalculateLayout(bs, maxH, o) ==
    LayoutLoop(bs, maxH, o, 1, ScaleOne,
               MeasureTotalHeight(bs, AnswerAt(o, 1), ScaleOne))

\* no measurement yet
NoMeasure ==
    [threw |-> FALSE, total |-> 0, blocksWithLines |-> <<>>, calls |-> <<>>]

\* no calculateLayout call in progress
LayoutIdle ==
    /\ layoutBlocks = <<>>
    /\ maxHeight = 0
    /\ oracle = <<>>
    /\ scale = ScaleOne
    /\ measured = NoMeasure
    /\ layout = NoLayout
    /\ layoutPc = "idle"

\* let scale = 1.0; let measured = measureTotalHeight(scale);
LayoutFirstMeasure ==
    /\ layoutPc = "called"
    /\ \E answer \in OracleAnswers :
          /\ oracle' = <<answer>>
          /\ measured' = MeasureTotalHeight(layoutBlocks, answer, ScaleOne)
    /\ scale' = ScaleOne
    /\ layoutPc' = IF measured'.threw THEN "threw" ELSE "loop"
    /\ UNCHANGED <<layoutBlocks, maxHeight, layout, tokVars, parseVars,
                   pdfVars, appVars>>

\* an iteration that takes the new total but keeps the blocks measured before
LayoutShrinkStaleBlocks ==
    /\ layoutPc = "loop"
    /\ ShrinksAgain(measured, scale, maxHeight)
    /\ scale' = DoubleMinus(scale, ScaleStep)
    /\ \E answer \in OracleAnswers :
          /\ oracle' = Append(oracle, answer)
          /\ measured' =
                LET m == MeasureTotalHeight(layoutBlocks, answer, scale')
                IN  IF m.threw THEN m
                    ELSE [m EXCEPT !.blocksWithLines = measured.blocksWithLines]
    /\ layoutPc' = IF measured'.threw THEN "threw" ELSE "loop"
    /\ UNCHANGED <<layoutBlocks, maxHeight, layout, tokVars, parseVars,
                   pdfVars, appVars>>

\* one iteration: scale -= step; measured = measureTotalHeight(scale);
LayoutShrink ==
    /\ layoutPc = "loop"
    /\ ShrinksAgain(measured, scale, maxHeight)
    /\ scale' = DoubleMinus(scale, ScaleStep)
    /\ \E answer \in OracleAnswers :
          /\ oracle' = Append(oracle, answer)
          /\ measured' = MeasureTotalHeight(layoutBlocks, answer, scale')
    /\ layoutPc' = IF measured'.threw THEN "threw" ELSE "loop"
    /\ UNCHANGED <<layoutBlocks, maxHeight, layout, tokVars, parseVars,
                   pdfVars, appVars>>

\* the loop condition is false: return the plan
LayoutReturn ==
    /\ layoutPc = "loop"
    /\ ~ShrinksAgain(measured, scale, maxHeight)
    /\ layout' = LayoutResult(measured, scale)
    /\ layoutPc' = "returned"
    /\ UNCHANGED <<layoutBlocks, maxHeight, oracle, scale, measured, tokVars,
                   parseVars, pdfVars, appVars>>

(***************************************************************************)
(* generatePdf.  The document is the sequence of its pages; a page is the  *)
(* blocks drawn on it, each with the y of its top, and the footers drawn   *)
(* on it.  Drawing goes to the last page, as in jsPDF, which never starts  *)
(* a page by itself.                                                       *)
(***************************************************************************)
\* const margin = 71
Margin == 71

\* doc.internal.pageSize.getHeight() of the a4 format in pt: 841.89
PageHeight == 84189000

\* const availableHeight = pageHeight - (margin * 2)
AvailableHeight == PageHeight - (Margin * UnitsPerPt * 2)

\* null: the empty tuple, which no document and no blob is
Null == <<>>

EmptyPage == [blocks |-> <<>>, footers |-> <<>>]

\* new jsPDF(...): a document of one blank page
NewDocument == <<EmptyPage>>

\* if (index > 0) doc.addPage(), with the condition dropped
AddsPageAlways(idx) == TRUE

\* if (index > 0) doc.addPage()
AddsPage(idx) == idx > 0

\* layout.blocks.forEach(block => ...) from the block at position n on, the
\* cursor at currentY: each block is drawn at the cursor, which then
\* advances by block.height + layout.spacing.  No block is skipped: every
\* block of a LayoutResult has its lines and its height.
\* a forEach whose cursor advances by block.height alone
RECURSIVE PlaceBlocksNoSpacing(_, _, _, _)
PlaceBlocksNoSpacing(bs, n, currentY, spacing) ==
    IF n > Len(bs) THEN <<>>
    ELSE << [type |-> bs[n].type, content |-> bs[n].content,
             lines |-> bs[n].lines, height |-> bs[n].height, y |-> currentY] >>
         \o PlaceBlocksNoSpacing(bs, n + 1, currentY + bs[n].height, spacing)

RECURSIVE PlaceBlocks(_, _, _, _)
PlaceBlocks(bs, n, currentY, spacing) ==
    IF n > Len(bs) THEN <<>>
    ELSE << [type |-> bs[n].type, content |-> bs[n].content,
             lines |-> bs[n].lines, height |-> bs[n].height, y |-> currentY] >>
         \o PlaceBlocks(bs, n + 1, currentY + bs[n].height + spacing, spacing)

\* the blocks and the footer drawn on the current page
DrawOnCurrentPage(d, drawnBlocks, footer) ==
    [d EXCEPT ![Len(d)] = [blocks |-> @.blocks \o drawnBlocks,
                           footers |-> Append(@.footers, footer)]]

\* no generatePdf call in progress
PdfIdle ==
    /\ pagesText = <<>>
    /\ doc = <<>>
    /\ pageIndex = 0
    /\ pdfPc = "idle"

\* calculateLayout has returned or thrown: its frame is gone
LayoutLeave ==
    /\ layoutBlocks' = <<>>
    /\ maxHeight' = 0
    /\ oracle' = <<>>
    /\ scale' = ScaleOne
    /\ measured' = NoMeasure
    /\ layout' = NoLayout
    /\ layoutPc' = "idle"

\* pagesText.forEach((rawText, index) => ...), up to the call of
\* calculateLayout: the page is added, the text parsed
PdfPage ==
    /\ pdfPc = "page"
    /\ pageIndex < Len(pagesText)
    /\ doc' = IF AddsPage(pageIndex) THEN Append(doc, EmptyPage) ELSE doc
    /\ layoutBlocks' = ParseContent(pagesText[pageIndex + 1].text)
    /\ maxHeight' = AvailableHeight
    /\ layoutPc' = "called"
    /\ pdfPc' = "layout"
    /\ UNCHANGED <<oracle, scale, measured, layout, pagesText, pageIndex,
                   tokVars, parseVars, appVars>>

\* the rest of the iteration: the blocks of the plan are drawn from the
\* margin down, then the footer index + 1
PdfDrawPage ==
    /\ pdfPc = "layout"
    /\ layoutPc = "returned"
    /\ doc' = DrawOnCurrentPage(doc,
                  PlaceBlocks(layout.blocks, 1, Margin * UnitsPerPt, layout.spacing),
                  pageIndex + 1)
    /\ pageIndex' = pageIndex + 1
    /\ pdfPc' = "page"
    /\ LayoutLeave
    /\ UNCHANGED <<pagesText, tokVars, parseVars, appVars>>

\* a generatePdf that caught the exception of calculateLayout and returned
\* the document as it stands
PdfSwallow ==
    /\ pdfPc = "layout"
    /\ layoutPc = "threw"
    /\ pdfPc' = "returned"
    /\ LayoutLeave
    /\ UNCHANGED <<pagesText, doc, pageIndex, tokVars, parseVars, appVars>>

\* nothing in generatePdf catches: the exception of calculateLayout leaves
\* the forEach and generatePdf
PdfThrow ==
    /\ pdfPc = "layout"
    /\ layoutPc = "threw"
    /\ pdfPc' = "threw"
    /\ LayoutLeave
    /\ UNCHANGED <<pagesText, doc, pageIndex, tokVars, parseVars, appVars>>

\* return doc.output('blob')
PdfReturn ==
    /\ pdfPc = "page"
    /\ pageIndex = Len(pagesText)
    /\ pdfPc' = "returned"
    /\ UNCHANGED <<pagesText, doc, pageIndex, layoutVars, tokVars, parseVars,
                   appVars>>

(***************************************************************************)
(* App.  files is the list of the selected files by type, pdfDoc the       *)
(* loaded PDF, <<numPages>>; appPc is the await at which the      *)
(* handler in progress stands; inputs and processedTexts are the locals of *)
(* processPdf and processImages.  A processed text carries the input it    *)
(* was made of.                                                            *)
(***************************************************************************)
MAX_IMAGES == 10

MAX_PDF_PAGES == 10

(***************************************************************************)
(* What the App is run on: PDFs of the page counts PdfPageCounts, at most  *)
(* MaxPages images, and the texts gemini.processPage answers with.         *)
(***************************************************************************)
MaxPages == 2

PdfPageCounts == 1..MaxPages \cup {MAX_PDF_PAGES + 1}

\* a page of prose that needs 80 lines when a line holds one character
LongPage == [k \in 1..80 |-> "a"]

\* prose, a fence of two lines of code, prose
MixedPage ==
    <<"a", "\n">> \o Fence \o <<"c", "\n", "x", "\n", "\t", "y", "\n">>
        \o Fence \o <<"\n", "b">>

\* the empty text of  response.text || ""  is among them
TranslatedTexts == { <<>>, <<"a", "b">>, MixedPage, LongPage }

\* the FileUpload component is enabled
UploadEnabled == status \in {"idle", "error", "completed"}

\* the initial state of the component
AppIdle ==
    /\ files = <<>>
    /\ pdfDoc = Null
    /\ status = "idle"
    /\ finalPdfBlob = Null
    /\ showOcrConfirm = FALSE
    /\ appPc = "none"
    /\ mode = "none"
    /\ inputs = <<>>
    /\ processedTexts = <<>>
    /\ selected = <<>>

\* a PDF is chosen: validateAndProcessFiles accepts it when no file is
\* selected, and handleFilesSelected starts loading it
HandleFilesSelectedPdf ==
    /\ UploadEnabled
    /\ files = <<>>
    /\ status' = "analyzing"
    /\ appPc' = "loadPdf"
    /\ UNCHANGED <<files, pdfDoc, finalPdfBlob, showOcrConfirm, mode, inputs,
                   processedTexts, selected, tokVars, parseVars, layoutVars, pdfVars>>

\* PdfService.loadPdf resolves with a document of numPages pages
LoadPdfResolved ==
    /\ appPc = "loadPdf"
    /\ \E numPages \in PdfPageCounts :
          IF numPages > 10
          THEN /\ status' = "error"
               /\ UNCHANGED <<files, pdfDoc>>
          ELSE /\ pdfDoc' = <<numPages>>
               /\ files' = <<"pdf">>
               /\ status' = "idle"
    /\ appPc' = "none"
    /\ UNCHANGED <<finalPdfBlob, showOcrConfirm, mode, inputs, processedTexts,
                   selected, tokVars, parseVars, layoutVars, pdfVars>>

\* the handler in progress returns: its locals are gone
HandlerEnds ==
    /\ appPc' = "none"
    /\ mode' = "none"
    /\ inputs' = <<>>
    /\ processedTexts' = <<>>

\* an await of the handler in progress rejects, or a call it makes throws:
\* every catch of the App sets the status error
Rejected(at) ==
    /\ appPc = at
    /\ status' = "error"
    /\ HandlerEnds
    /\ UNCHANGED <<files, pdfDoc, finalPdfBlob, showOcrConfirm, selected, tokVars,
                   parseVars, layoutVars, pdfVars>>

LoadPdfRejected == Rejected("loadPdf")

\* n images are chosen: validateAndProcessFiles passes on those below the
\* limit when no PDF is selected, and handleFilesSelected appends them,
\* leaving finalPdfBlob and the status as they are.  The list is kept to
\* MaxPages files.
HandleFilesSelectedImages ==
    /\ UploadEnabled
    /\ files # <<>> => files[1] = "image"
    /\ \E n \in 1..MaxPages :
          LET accepted == MinOf({n, MAX_IMAGES - Len(files)})
          IN  /\ accepted > 0
              /\ Len(files) + accepted <= MaxPages
              /\ files' = files \o [k \in 1..accepted |-> "image"]
    /\ UNCHANGED <<pdfDoc, status, finalPdfBlob, showOcrConfirm, appPc, mode,
                   inputs, processedTexts, selected, tokVars, parseVars, layoutVars,
                   pdfVars>>

\* Limpar, or Cancelar in the OCR confirmation
ClearFiles ==
    /\ \/ files # <<>> /\ status \in {"idle", "completed", "error"}
       \/ showOcrConfirm
    /\ files' = <<>>
    /\ pdfDoc' = Null
    /\ finalPdfBlob' = Null
    /\ status' = "idle"
    /\ showOcrConfirm' = FALSE
    /\ UNCHANGED <<appPc, mode, inputs, processedTexts, selected, tokVars, parseVars,
                   layoutVars, pdfVars>>

\* processImages up to its first await
ProcessImages ==
    /\ status' = "processing"
    /\ mode' = "images"
    /\ inputs' = [k \in 1..Len(files) |-> k]
    /\ processedTexts' = <<>>
    /\ appPc' = "readImage"

\* Processar Arquivos, the button shown while finalPdfBlob is null and
\* enabled with files selected in status idle or error: startProcessing up
\* to its first await
StartProcessing ==
    /\ finalPdfBlob = Null
    /\ files # <<>>
    /\ status \in {"idle", "error"}
    /\ finalPdfBlob' = Null
    /\ IF files[1] = "pdf" /\ pdfDoc # Null
       THEN /\ status' = "analyzing"
            /\ appPc' = "checkIsSearchable"
            /\ UNCHANGED <<mode, inputs, processedTexts>>
       ELSE ProcessImages
    /\ UNCHANGED <<files, pdfDoc, showOcrConfirm, selected, tokVars, parseVars,
                   layoutVars, pdfVars>>

\* processPdf(mode) up to its first await
ProcessPdf(m) ==
    /\ showOcrConfirm' = FALSE
    /\ status' = "processing"
    /\ mode' = m
    /\ inputs' = <<>>
    /\ processedTexts' = <<>>
    /\ appPc' = "extract"

\* PdfService.checkIsSearchable resolves
CheckIsSearchableResolved ==
    /\ appPc = "checkIsSearchable"
    /\ \E isSearchable \in BOOLEAN :
          IF isSearchable
          THEN ProcessPdf("text")
          ELSE /\ showOcrConfirm' = TRUE
               /\ status' = "confirm_ocr"
               /\ appPc' = "none"
               /\ UNCHANGED <<mode, inputs, processedTexts>>
    /\ UNCHANGED <<files, pdfDoc, finalPdfBlob, selected, tokVars, parseVars, layoutVars,
                   pdfVars>>

CheckIsSearchableRejected == Rejected("checkIsSearchable")

\* Sim, aplicar OCR
ConfirmOcr ==
    /\ showOcrConfirm
    /\ ProcessPdf("ocr")
    /\ UNCHANGED <<files, pdfDoc, finalPdfBlob, selected, tokVars, parseVars, layoutVars,
                   pdfVars>>

\* generateFinalPdf(texts) up to the call of generatePdf, and generatePdf
\* up to its loop
GenerateFinalPdf(texts) ==
    /\ status' = "generating"
    /\ appPc' = "generatePdf"
    /\ pagesText' = texts
    /\ doc' = NewDocument
    /\ pageIndex' = 0
    /\ pdfPc' = "page"

\* the next await of the loop over the inputs, or generateFinalPdf after it
NextInput(texts, ins) ==
    IF Len(texts) < Len(ins)
    THEN /\ status' = "processing"
         /\ appPc' = IF mode = "images" THEN "readImage" ELSE "processPage"
         /\ UNCHANGED pdfVars
    ELSE GenerateFinalPdf(texts)

\* PdfService.extractText or renderPagesToImages resolves with the pages in
\* page order, at most MAX_PDF_PAGES of them
ExtractResolved ==
    /\ appPc = "extract"
    /\ inputs' = [k \in 1..MinOf({pdfDoc[1], MAX_PDF_PAGES}) |-> k]
    /\ NextInput(processedTexts, inputs')
    /\ UNCHANGED <<files, pdfDoc, finalPdfBlob, showOcrConfirm, mode,
                   processedTexts, selected, tokVars, parseVars, layoutVars>>

ExtractRejected == Rejected("extract")

\* the FileReader of processImages loads the file; it has no error handler
ImageReadResolved ==
    /\ appPc = "readImage"
    /\ appPc' = "processPage"
    /\ UNCHANGED <<files, pdfDoc, status, finalPdfBlob, showOcrConfirm, mode,
                   inputs, processedTexts, selected, tokVars, parseVars, layoutVars,
                   pdfVars>>

\* the FileReader fails to read the file: its error event has no handler,
\* so base64Promise is never settled and processImages stays at its await
ImageReadFailed ==
    /\ appPc = "readImage"
    /\ appPc' = "readFailed"
    /\ UNCHANGED <<files, pdfDoc, status, finalPdfBlob, showOcrConfirm, mode,
                   inputs, processedTexts, selected, tokVars, parseVars, layoutVars,
                   pdfVars>>

\* gemini.processPage resolves with the text of the page
ProcessPageResolved ==
    /\ appPc = "processPage"
    /\ \E result \in TranslatedTexts :
          processedTexts' =
              Append(processedTexts,
                     [of |-> inputs[Len(processedTexts) + 1], text |-> result])
    /\ NextInput(processedTexts', inputs)
    /\ UNCHANGED <<files, pdfDoc, finalPdfBlob, showOcrConfirm, mode, inputs,
                   selected, tokVars, parseVars, layoutVars>>

ProcessPageRejected == Rejected("processPage")

\* generatePdf has returned or thrown: its frame is gone
PdfLeave ==
    /\ pagesText' = <<>>
    /\ doc' = <<>>
    /\ pageIndex' = 0
    /\ pdfPc' = "idle"

\* generatePdf has returned: setFinalPdfBlob(blob), status completed
GenerateFinalPdfReturn ==
    /\ appPc = "generatePdf"
    /\ pdfPc = "returned"
    /\ finalPdfBlob' = doc
    /\ status' = "completed"
    /\ HandlerEnds
    /\ PdfLeave
    /\ UNCHANGED <<files, pdfDoc, showOcrConfirm, selected, tokVars, parseVars,
                   layoutVars>>

\* generatePdf has thrown: the catch of generateFinalPdf sets status error
GenerateFinalPdfCatch ==
    /\ appPc = "generatePdf"
    /\ pdfPc = "threw"
    /\ status' = "error"
    /\ HandlerEnds
    /\ PdfLeave
    /\ UNCHANGED <<files, pdfDoc, finalPdfBlob, showOcrConfirm, selected, tokVars,
                   parseVars, layoutVars>>

(***************************************************************************)
(* FileUpload.  A change or drop event hands validateAndProcessFiles a     *)
(* FileList, here the sequence of the MIME types of its files.             *)
(***************************************************************************)
ACCEPTED_IMAGE_TYPES == {"image/jpeg", "image/png", "image/webp"}

ACCEPTED_PDF_TYPE == "application/pdf"

\* the loop over the images without the test against MAX_IMAGES
RECURSIVE ImagesLoopNoLimit(_, _, _)
ImagesLoopNoLimit(fs, n, count) ==
    IF n > Len(fs) THEN <<>>
    ELSE IF fs[n] \notin ACCEPTED_IMAGE_TYPES
         THEN ImagesLoopNoLimit(fs, n + 1, count)
         ELSE <<"image">> \o ImagesLoopNoLimit(fs, n + 1, count + 1)

\* for (let i = 0; i < files.length; i++) from the file at position n on,
\* count images selected so far: a file of another type is passed over,
\* and the loop ends at the first image beyond MAX_IMAGES
RECURSIVE ImagesLoop(_, _, _)
ImagesLoop(fs, n, count) ==
    IF n > Len(fs) THEN <<>>
    ELSE IF fs[n] \notin ACCEPTED_IMAGE_TYPES THEN ImagesLoop(fs, n + 1, count)
    ELSE IF count >= MAX_IMAGES THEN <<>>
    ELSE <<"image">> \o ImagesLoop(fs, n + 1, count + 1)

\* newFiles of validateAndProcessFiles(files) with currentFiles = cur
NewFiles(fs, cur) ==
    IF fs = <<>> THEN <<>>
    ELSE LET isPdf == fs[1] = ACCEPTED_PDF_TYPE
         IN  IF cur # <<>> /\ isPdf # (cur[1] = "pdf") THEN <<>>
             ELSE IF isPdf
                  THEN IF Len(fs) > 1 \/ cur # <<>> THEN <<>> ELSE <<"pdf">>
                  ELSE ImagesLoop(fs, 1, Len(cur))

\* the longest FileList of one event
MaxSelected == 3

\* the MIME types of the files offered: a PDF, an image, a text file
FileTypes == {ACCEPTED_PDF_TYPE, "image/png", "text/plain"}

\* handleChange or handleDrop with the FileList fs: nothing when the
\* component is disabled; else validateAndProcessFiles, and, when it has
\* new files, handleFilesSelected(newFiles) up to its first await
ValidateAndProcessFiles ==
    /\ UploadEnabled
    /\ \E n \in 0..MaxSelected :
          \E fs \in [1..n -> FileTypes] :
             /\ selected' = fs
             /\ LET newFiles == NewFiles(fs, files)
                IN  IF newFiles = <<>>
                    THEN UNCHANGED <<files, status, appPc>>
                    ELSE IF newFiles[1] = "pdf"
                         THEN /\ status' = "analyzing"
                              /\ appPc' = "loadPdf"
                              /\ UNCHANGED files
                         ELSE /\ files' = files \o newFiles
                              /\ UNCHANGED <<status, appPc>>
    /\ UNCHANGED <<pdfDoc, finalPdfBlob, showOcrConfirm, mode, inputs,
                   processedTexts, tokVars, parseVars, layoutVars, pdfVars>>

(***************************************************************************)
(* The lines renderCodeLine is run on: every concatenation of at most      *)
(* MaxFragments fragments, and a few whole lines of C.                     *)
(***************************************************************************)
MaxFragments == 4

Fragments ==
    { <<"/">>, <<"\"">>, <<"'">>, <<"\\">>, <<" ">>, <<"(">>, <<"<">>, <<">">>,
      <<"7">>, <<"g">>, <<"i", "f">>,
      <<"#", "i", "n", "c", "l", "u", "d", "e">> }

ExampleLines ==
    { <<"#", "i", "n", "c", "l", "u", "d", "e", " ", "<", "s", "t", "d", "i",
        "o", ".", "h", ">">>,
      <<"#", "i", "n", "c", "l", "u", "d", "e", " ", " ", "<", "a", ">", " ",
        "/", "/", "x">>,
      <<"#", "i", "n", "c", "l", "u", "d", "e", " ", "\"", "a", ".", "h", "\"">>,
      <<"#", "d", "e", "f", "i", "n", "e", " ", "N", " ", "0", "x", "1", "F">>,
      <<"#", "d", "e", "f", "i", "n", "e", " ", "f", "(", "x", ")", " ", "\"",
        "s", "\"", " ", "1", " ", "/", "/", " ", "c">>,
      <<"\"", "a", "\\", "\"", "b", "\"">>,
      <<"x", " ", "/", "*", " ", "\"", "c", "\"", " ", "*", "/", " ", "y">>,
      <<"c", " ", "=", " ", "'", "\\", "'", "'", ";">>,
      <<"i", "n", "t", " ", "x", " ", "=", " ", "5", ";", " ", "/", "/", " ",
        "f", "i", "v", "e">>,
      <<"s", "i", "z", "e", "o", "f", "(", "x", ")", " ", "+", " ", "f", "o",
        "o", " ", "(", "1", ".", "5", ")", ";">> }

\* no renderCodeLine call in progress
TokIdle ==
    /\ line = <<>>
    /\ i = 0
    /\ x = 0
    /\ textColor = "default"
    /\ drawn = <<>>

\* no parseContent call in progress
ParseIdle ==
    /\ text = <<>>
    /\ cleanedText = <<>>
    /\ blocks = <<>>
    /\ lastIndex = 0
    /\ parsePc = "idle"

TokInit ==
    /\ ParseIdle
    /\ LayoutIdle
    /\ PdfIdle
    /\ AppIdle
    /\ \/ line \in ExampleLines
       \/ \E n \in 0..MaxFragments :
             \E f \in [1..n -> Fragments] : line = Flatten(f)
    /\ i = 0
    /\ x = 0
    /\ textColor = "default"
    /\ drawn = <<>>

TokNext ==
    \/ RenderComment
    \/ RenderString
    \/ RenderDirective
    \/ RenderNumber
    \/ RenderIdentifier
    \/ RenderOther

SpecTok == TokInit /\ [][TokNext]_vars


(***************************************************************************)
(* The page texts parseContent is run on: every concatenation of at most   *)
(* MaxTextFragments fragments, and a few whole pages.                      *)
(***************************************************************************)
MaxTextFragments == 5

TextFragments ==
    { Fence, Fence \o <<"c", " ", "\n">>, <<"\n">>, <<" ">>, <<"\t">>, <<"a">>,
      <<"&", "l", "t", ";">> }

ExampleTexts ==
    { \* prose, code, prose, code, prose
      <<"a", "\n">> \o Fence \o <<"c", "\n", "i", "f", "\n">> \o Fence
        \o <<"\n", "b", " ", "b", "\n">> \o Fence \o <<"\n", "\t", "x", "\n">>
        \o Fence \o <<"\n", "c">>,
      \* a complete fence, then an opener that is never closed
      <<"a">> \o Fence \o <<"\n", "x">> \o Fence \o <<" ", "b", "\n">> \o Fence
        \o <<"c", "\n", "y", "\n", "z">>,
      \* two fences back to back, the first one empty
      Fence \o <<"\n">> \o Fence \o Fence \o <<"\n", "x", "\n", "\n">> \o Fence,
      \* four backquotes, and blank lines around the code
      <<Backtick>> \o Fence \o <<"c", " ", "\n", " ", "\n", "\n", " ", "x",
        "\n", " ", "\n">> \o Fence \o <<Backtick>> }

ParseInit ==
    /\ TokIdle
    /\ LayoutIdle
    /\ PdfIdle
    /\ AppIdle
    /\ \/ text \in ExampleTexts
       \/ \E n \in 0..MaxTextFragments :
             \E f \in [1..n -> TextFragments] : text = Flatten(f)
    /\ cleanedText = <<>>
    /\ blocks = <<>>
    /\ lastIndex = 0
    /\ parsePc = "called"

ParseNext ==
    \/ ParseClean
    \/ ParseMatch
    \/ ParseReturn

SpecParse == ParseInit /\ [][ParseNext]_vars

(***************************************************************************)
(* The calls of cleanText on their own: every concatenation of at most     *)
(* MaxEntityFragments pieces of character references.                      *)
(***************************************************************************)
MaxEntityFragments == 4

EntityFragments ==
    { <<"&">>, <<"a">>, <<"a", "m", "p", ";">>, <<"l", "t", ";">>,
      <<"n", "b", "s", "p", ";">>, <<"c", "o", "p", "y", ";">>,
      <<"#", "3", "8", ";">>, <<"#", "3", "9", ";">>, <<"#", "x", "3", "c", ";">> }

CleanInit ==
    /\ TokIdle
    /\ LayoutIdle
    /\ PdfIdle
    /\ AppIdle
    /\ \E n \in 0..MaxEntityFragments :
          \E f \in [1..n -> EntityFragments] : text = Flatten(f)
    /\ cleanedText = <<>>
    /\ blocks = <<>>
    /\ lastIndex = 0
    /\ parsePc = "called"

CleanNext == ParseClean

SpecClean == CleanInit /\ [][CleanNext]_vars

(***************************************************************************)
(* The calls of calculateLayout on their own: the blocks of a few pages,   *)
(* and every maxHeight of LayoutHeights.                                   *)
(***************************************************************************)
MaxHeightSteps == 8

\* maxHeight in steps of 15 pt
LayoutHeights == { h * 15 * UnitsPerPt : h \in 0..MaxHeightSteps }

\* a fence of code with an empty line in it, and nothing else
CodePage ==
    Fence \o <<"c", "\n", "i", "f", " ", "(", "x", ")", "\n", "\n", " ", "y",
                   ";", "\n">> \o Fence

\* prose of two paragraphs
ProsePage == <<"a", "\n", "b", "c", "d">>

SamplePages == { <<>>, <<"a", "b">>, MixedPage, CodePage, ProsePage }

LayoutInit ==
    /\ TokIdle
    /\ ParseIdle
    /\ PdfIdle
    /\ AppIdle
    /\ \E t \in SamplePages : layoutBlocks = ParseContent(t)
    /\ maxHeight \in LayoutHeights
    /\ oracle = <<>>
    /\ scale = ScaleOne
    /\ measured = NoMeasure
    /\ layout = NoLayout
    /\ layoutPc = "called"

LayoutNext ==
    \/ LayoutFirstMeasure
    \/ LayoutShrink
    \/ LayoutReturn

SpecLayout == LayoutInit /\ [][LayoutNext]_vars

(***************************************************************************)
(* The App, from the mounting of the component on.                         *)
(***************************************************************************)
AppInit ==
    /\ TokIdle
    /\ ParseIdle
    /\ LayoutIdle
    /\ PdfIdle
    /\ AppIdle

AppNext ==
    \/ HandleFilesSelectedPdf
    \/ LoadPdfResolved
    \/ LoadPdfRejected
    \/ HandleFilesSelectedImages
    \/ ClearFiles
    \/ StartProcessing
    \/ CheckIsSearchableResolved
    \/ CheckIsSearchableRejected
    \/ ConfirmOcr
    \/ ExtractResolved
    \/ ExtractRejected
    \/ ImageReadResolved
    \/ ImageReadFailed
    \/ ProcessPageResolved
    \/ ProcessPageRejected
    \/ PdfPage
    \/ LayoutFirstMeasure
    \/ LayoutShrink
    \/ LayoutReturn
    \/ PdfDrawPage
    \/ PdfThrow
    \/ PdfReturn
    \/ GenerateFinalPdfReturn
    \/ GenerateFinalPdfCatch

SpecApp == AppInit /\ [][AppNext]_vars

\* ENABLED <<PdfPage>>_vars: a PdfPage step always changes pdfPc
PdfPageEnabled == pdfPc = "page" /\ pageIndex < Len(pagesText)

\* Every external call in flight comes to an end, with success or with
\* failure, and the synchronous code of generatePdf runs on to its return or
\* its exception.  What the user does (select, clear, start, confirm) may
\* never happen.  The weak fairness of PdfPage is written out with its
\* enabling condition.
AppFairness ==
    /\ WF_vars(LoadPdfResolved \/ LoadPdfRejected)
    /\ WF_vars(CheckIsSearchableResolved \/ CheckIsSearchableRejected)
    /\ WF_vars(ExtractResolved \/ ExtractRejected)
    /\ WF_vars(ImageReadResolved \/ ImageReadFailed)
    /\ WF_vars(ProcessPageResolved \/ ProcessPageRejected)
    /\ []<>~PdfPageEnabled \/ []<><<PdfPage>>_vars
    /\ WF_vars(LayoutFirstMeasure)
    /\ WF_vars(LayoutShrink)
    /\ WF_vars(LayoutReturn)
    /\ WF_vars(PdfDrawPage)
    /\ WF_vars(PdfThrow)
    /\ WF_vars(PdfReturn)
    /\ WF_vars(GenerateFinalPdfReturn)
    /\ WF_vars(GenerateFinalPdfCatch)

SpecAppFair == SpecApp /\ AppFairness

(***************************************************************************)
(* The file list under selections and clears alone.                        *)
(***************************************************************************)
FilesInit == AppInit

FilesNext ==
    \/ ValidateAndProcessFiles
    \/ LoadPdfResolved
    \/ LoadPdfRejected
    \/ ClearFiles

SpecFiles == FilesInit /\ [][FilesNext]_vars

(***************************************************************************)
(* Properties of renderCodeLine                                            *)
(***************************************************************************)
RECURSIVE ConcatTexts(_)
ConcatTexts(ds) == IF ds = <<>> THEN "" ELSE Head(ds).text \o ConcatTexts(Tail(ds))

\* C1: the texts of the tokens drawn so far, concatenated in the order of
\* the doc.text calls, are exactly the part of the line already scanned; when
\* the loop has ended (i = len) they are the whole line, nothing dropped,
\* duplicated or reordered.
C1_ConcatIsLine ==
    /\ ConcatTexts(drawn) = Join(Substring(line, 0, i))
    /\ i >= Len(line) => ConcatTexts(drawn) = Join(line)

\* a finished line whose  #include <  header runs to the end of the line
\* unterminated, after a string left unterminated would have been possible
C1_Witness ==
    /\ i = Len(line)
    /\ Len(drawn) = 3
    /\ drawn[1].text = "#include"
    /\ drawn[2].text = " "
    /\ drawn[3].color = "string"
    /\ line[Len(line)] # ">"

\* The index just past the string literal opened at index p: past the first
\* later occurrence of the same quote that no backslash immediately
\* precedes, or the end of the line.
StringEnd(s, p) ==
    LET closers == { j \in (p + 1)..(Len(s) - 1) :
                        CharAt(s, j) = CharAt(s, p) /\ CharAt(s, j - 1) # "\\" }
    IN  IF closers = {} THEN Len(s) ELSE MinOf(closers) + 1

\* C8: an iteration that starts at a ' or " draws exactly one token, in the
\* string colour, running from that quote to and including the first later
\* occurrence of the same quote not immediately preceded by a backslash, or
\* to the end of the line.
C8_StringToken ==
    [][ (i < Len(line) /\ IsQuote(CharAt(line, i)))
        => /\ drawn' = Append(drawn,
                  [text |-> Join(Substring(line, i, StringEnd(line, i))),
                   color |-> "string", x |-> x])
           /\ i' = StringEnd(line, i) ]_vars

\* "a\"b" has been drawn as one string token
C8_Witness ==
    /\ line = <<"\"", "a", "\\", "\"", "b", "\"">>
    /\ drawn = << [text |-> Join(line), color |-> "string", x |-> 0] >>

\* The index just past the maximal run of identifier characters from p.
WordEnd(s, p) ==
    MinOf({ j \in p..Len(s) : j = Len(s) \/ ~IsWordChar(CharAt(s, j)) })

\* The first index from p on that holds no white space (len if none).
SpaceEnd(s, p) ==
    MinOf({ j \in p..Len(s) : j = Len(s) \/ ~IsSpace(CharAt(s, j)) })

\* The index just past the first '>' from p on (len if none).
HeaderEnd(s, p) ==
    LET closers == { j \in p..(Len(s) - 1) : CharAt(s, j) = ">" }
    IN  IF closers = {} THEN Len(s) ELSE MinOf(closers) + 1

\* the directive at p is exactly #include and the next non-space is '<'
IncludesHeader(s, p) ==
    /\ Substring(s, p, WordEnd(s, p + 1))
         = <<"#", "i", "n", "c", "l", "u", "d", "e">>
    /\ CharAt(s, SpaceEnd(s, WordEnd(s, p + 1))) = "<"

\* C9: an iteration that starts at a '#': when the directive is exactly
\* #include and the next non-space character is '<', the draws are #include
\* in the keyword colour, the white space between, and one token in the
\* string colour from '<' to and including the first following '>' (or to
\* the end of the line); otherwise the one draw is '#' with the identifier
\* characters that follow it, in the keyword colour.
C9_Directive ==
    [][ (i < Len(line) /\ CharAt(line, i) = "#")
        => LET e == WordEnd(line, i + 1)
               h == SpaceEnd(line, e)
               g == HeaderEnd(line, h)
           IN  IF IncludesHeader(line, i)
               THEN /\ Len(drawn') = Len(drawn) + 3
                    /\ SubSeq(drawn', 1, Len(drawn)) = drawn
                    /\ drawn'[Len(drawn) + 1]
                         = [text |-> "#include", color |-> "keyword", x |-> x]
                    /\ drawn'[Len(drawn) + 2].text = Join(Substring(line, e, h))
                    /\ drawn'[Len(drawn) + 3]
                         = [text |-> Join(Substring(line, h, g)),
                            color |-> "string", x |-> x + (h - i)]
                    /\ i' = g
               ELSE /\ drawn' = Append(drawn,
                          [text |-> Join(Substring(line, i, e)),
                           color |-> "keyword", x |-> x])
                    /\ i' = e ]_vars

\* #include <stdio.h> has been drawn: keyword, spacing, <stdio.h> as a string
C9_Witness ==
    /\ Len(drawn) = 3
    /\ drawn[1].text = "#include" /\ drawn[1].color = "keyword"
    /\ drawn[3].text = "<stdio.h>" /\ drawn[3].color = "string"
    /\ i = Len(line)

\* C10: every iteration of the scan loop, whichever of the six branches it
\* takes, moves i forward by at least one character and never past the end
\* of the line; so len - i decreases at each iteration and the loop ends
\* after at most len iterations.
C10_Terminates ==
    [][i' >= i + 1 /\ i' <= Len(line)]_vars

\* a line that took iterations of all six branches has been scanned to its
\* end
C10_Witness ==
    /\ i = Len(line)
    /\ Len(line) > 0
    /\ { drawn[n].color : n \in 1..Len(drawn) } = SYNTAX_COLORS


(***************************************************************************)
(* Properties of parseContent                                              *)
(***************************************************************************)
IsPrefix(a, b) == Len(a) <= Len(b) /\ SubSeq(b, 1, Len(a)) = a

IsSuffix(a, b) == Len(a) <= Len(b) /\ SubSeq(b, Len(b) - Len(a) + 1, Len(b)) = a

\* The newlines that can end the opening line of a fence whose three
\* backquotes are at index p: those of the white space that follows the
\* optional language tag.
OpenerNewlines(s, p) ==
    LET w == WordEnd(s, p + 3)
    IN  { n \in w..(SpaceEnd(s, w) - 1) : CharAt(s, n) = "\n" }

\* a fence opener at index p: three backquotes, an optional language tag,
\* white space with a newline in it
IsOpenerAt(s, p) == FenceAt(s, p) /\ OpenerNewlines(s, p) # {}

\* the closing fences of the opener at p: the three-backquote positions after
\* its opening line
Closers(s, p) ==
    { q \in (MaxOf(OpenerNewlines(s, p)) + 1)..Len(s) : FenceAt(s, q) }

\* the complete fences that start at or after index from
FenceStarts(s, from) ==
    { p \in from..Len(s) : IsOpenerAt(s, p) /\ Closers(s, p) # {} }

\* The sections of s from index from on, in the order of the text: for each
\* complete fence, the trimmed text before it (if any is left) as prose and
\* its content as code (if any is left), then the trimmed text after the last
\* fence as prose.
RECURSIVE Sections(_, _)
Sections(s, from) ==
    LET Prose(a, b) ==
            IF Trim(Substring(s, a, b)) # <<>>
            THEN << [type |-> "text", content |-> Trim(Substring(s, a, b))] >>
            ELSE <<>>
    IN  IF FenceStarts(s, from) = {}
        THEN Prose(from, Len(s))
        ELSE LET p == MinOf(FenceStarts(s, from))
                 c == MaxOf(OpenerNewlines(s, p)) + 1
                 q == MinOf(Closers(s, p))
                 code == StripNewlines(ExpandTabs(Substring(s, c, q)))
             IN  Prose(from, p)
                 \o (IF code # <<>>
                     THEN << [type |-> "code", content |-> code] >> ELSE <<>>)
                 \o Sections(s, q + 3)

\* C5: the blocks are pushed in the order of the text: at every point of the
\* loop the blocks pushed so far are the first sections of the cleaned text,
\* and on return they are all of them: for each matched fence the trimmed
\* text before it as a text block (if not empty), then its content as a code
\* block (if not empty), and last the trimmed text after the last fence;
\* nothing merged, nothing out of place.
C5_BlocksInTextOrder ==
    /\ parsePc = "loop" => IsPrefix(blocks, Sections(cleanedText, 0))
    /\ parsePc = "returned" => blocks = Sections(cleanedText, 0)

\* a page of prose, code, prose, code, prose has been parsed into five blocks
C5_Witness ==
    /\ parsePc = "returned"
    /\ Len(blocks) = 5
    /\ [k \in 1..5 |-> blocks[k].type]
         = <<"text", "code", "text", "code", "text">>

\* the index after the last complete fence of s (0 if there is none)
RECURSIVE AfterLastFence(_, _)
AfterLastFence(s, from) ==
    IF FenceStarts(s, from) = {} THEN from
    ELSE AfterLastFence(s, MinOf(Closers(s, MinOf(FenceStarts(s, from)))) + 3)

\* the openers of s that are left open: at or after the end of the last
\* complete fence (so not the closing fence of an earlier opener), with no
\* three backquotes anywhere after them
OpenFences(s) ==
    { p \in AfterLastFence(s, 0)..Len(s) :
        IsOpenerAt(s, p) /\ \A q \in (p + 3)..Len(s) : ~FenceAt(s, q) }

\* C6: when the cleaned text has a fence opener that is never closed, the
\* last block returned is a text block that ends with all the text from the
\* opener (its three backquotes included) to the end of the page, trimmed,
\* and the blocks before it are sections of the text before the opener: no
\* code block is made of the unclosed fence.
C6_UnterminatedFenceIsProse ==
    parsePc = "returned" =>
        \A p \in OpenFences(cleanedText) :
            /\ blocks # <<>>
            /\ blocks[Len(blocks)].type = "text"
            /\ IsSuffix(Trim(Substring(cleanedText, p, Len(cleanedText))),
                        blocks[Len(blocks)].content)
            /\ IsPrefix(SubSeq(blocks, 1, Len(blocks) - 1),
                        Sections(Substring(cleanedText, 0, p), 0))

\* a page with a complete fence and then an unclosed opener with text after
\* it has been parsed
C6_Witness ==
    /\ parsePc = "returned"
    /\ OpenFences(cleanedText) # {}
    /\ \E k \in 1..Len(blocks) : blocks[k].type = "code"
    /\ \E p \in OpenFences(cleanedText) :
          Len(Trim(Substring(cleanedText, p, Len(cleanedText)))) > 5

(***************************************************************************)
(* Properties of calculateLayout                                           *)
(***************************************************************************)
\* the scale of the k-th measurement of a call
RECURSIVE ScaleAt(_)
ScaleAt(k) == IF k = 1 THEN ScaleOne ELSE DoubleMinus(ScaleAt(k - 1), ScaleStep)

\* the total height the oracle's answers gave at the k-th measurement
TotalAt(k) == MeasureTotalHeight(layoutBlocks, oracle[k], ScaleAt(k)).total

\* the descending sequence of scales, in hundredths
ScaleSequence == <<100, 95, 90, 85, 80, 75, 70, 65>>

\* C2: a call that returns has measured the scales of the sequence 1.0,
\* 0.95, ..., 0.65 in order and returns a plan at the first of them whose
\* total height is <= maxHeight, or at the last, 0.65, when none fits; the
\* scale it returns is not below the floor minScale and not above 1.0.
C2_FirstFitOrFloor ==
    layoutPc = "returned" =>
        LET n == Len(oracle)
        IN  /\ ~layout.threw
            /\ n \in 1..Len(ScaleSequence)
            /\ layout.scale = ScaleAt(n)
            /\ Hundredths(layout.scale) = ScaleSequence[n]
            /\ \A k \in 1..(n - 1) : TotalAt(k) > maxHeight
            /\ TotalAt(n) <= maxHeight \/ n = Len(ScaleSequence)
            /\ ~DoubleGreater(MinScale, layout.scale)
            /\ ~DoubleGreater(layout.scale, ScaleOne)

\* C3: when a call has returned for maxHeight, the call on the same blocks
\* with the same answers of the oracle and any greater maxHeight returns a
\* plan too, and its scale is not smaller.
C3_MonotoneInMaxHeight ==
    layoutPc = "returned" =>
        \A h2 \in LayoutHeights :
            h2 >= maxHeight =>
                LET r == CalculateLayout(layoutBlocks, h2, oracle)
                IN  ~r.threw /\ ~DoubleGreater(layout.scale, r.scale)

\* a call that shrank at least twice under answers whose total height went
\* up from one scale to the next smaller one, and a greater maxHeight for
\* which the scale is strictly greater
C3_Witness ==
    /\ layoutPc = "returned"
    /\ Len(oracle) >= 3
    /\ \E k \in 1..(Len(oracle) - 1) : TotalAt(k + 1) > TotalAt(k)
    /\ \E h2 \in LayoutHeights :
          /\ h2 > maxHeight
          /\ DoubleGreater(CalculateLayout(layoutBlocks, h2, oracle).scale,
                           layout.scale)

(***************************************************************************)
(* Properties of generatePdf and of the App                                *)
(***************************************************************************)
\* the type and content of the blocks drawn on a page, in drawing order
BlocksOn(page) ==
    [j \in 1..Len(page.blocks) |->
        [type |-> page.blocks[j].type, content |-> page.blocks[j].content]]

\* C4: the texts handed to generatePdf are the processed inputs in input
\* order, one per input; while generatePdf runs, the document has one page
\* per text begun, and every page k whose text has been laid out holds the
\* blocks of text k, all of them and no others, and the one footer k; when
\* generatePdf returns, the document has exactly as many pages as texts.
C4_PagesInInputOrder ==
    pdfPc \in {"page", "returned"} =>
        /\ Len(pagesText) = Len(inputs)
        /\ \A k \in 1..Len(pagesText) : pagesText[k].of = k
        /\ Len(doc) = MaxOf({1, pageIndex})
        /\ pdfPc = "returned" => Len(doc) = Len(pagesText)
        /\ \A k \in 1..pageIndex :
              /\ doc[k].footers = <<k>>
              /\ BlocksOn(doc[k]) = ParseContent(pagesText[k].text)

\* generatePdf returns a document of MaxPages pages whose first text was
\* empty and whose last page holds prose, code and prose
C4_Witness ==
    /\ pdfPc = "returned"
    /\ Len(doc) = MaxPages
    /\ pagesText[1].text = <<>>
    /\ doc[1].blocks = <<>>
    /\ doc[1].footers = <<1>>
    /\ Len(doc[MaxPages].blocks) = 3
    /\ doc[MaxPages].blocks[2].type = "code"

\* splitTextToSize throws on some block of bs under the answer
OracleFails(bs, answer) ==
    \E n \in 1..Len(bs) :
        \/ bs[n].type = "code" /\ answer.code = 0
        \/ bs[n].type = "text" /\ answer.text = 0

\* C7: a measurement at which the oracle fails on some block ends
\* calculateLayout with the exception and without a plan; generatePdf then
\* ends with the exception too; and the App then ends the run in status
\* error with finalPdfBlob null.  From the failure on, finalPdfBlob is null
\* and the status is not completed.
C7_OracleFailurePropagates ==
    [][ /\ (/\ Len(oracle') = Len(oracle) + 1
            /\ OracleFails(layoutBlocks, oracle'[Len(oracle')]))
           => (layoutPc' = "threw" /\ layout' = NoLayout)
        /\ (layoutPc = "threw" /\ pdfPc = "layout")
           => (/\ pdfPc' = "threw"
               /\ finalPdfBlob = Null /\ finalPdfBlob' = Null
               /\ status = "generating" /\ status' = "generating")
        /\ pdfPc = "threw"
           => (/\ status' = "error"
               /\ finalPdfBlob' = Null
               /\ appPc' = "none")
      ]_vars

\* the oracle fails at the second scale of the second page of a run, the
\* first page already drawn
C7_Witness ==
    /\ layoutPc = "threw"
    /\ pdfPc = "layout"
    /\ Len(oracle) = 2
    /\ pageIndex = 1
    /\ Len(doc) = 2
    /\ doc[1].footers = <<1>>
    /\ status = "generating"

(***************************************************************************)
(* More properties of renderCodeLine                                       *)
(***************************************************************************)
\* the tokens drawn, as pairs of text and class
TokensDrawn == [n \in 1..Len(drawn) |-> <<drawn[n].text, drawn[n].color>>]

IntLine ==
    <<"i", "n", "t", " ", "x", " ", "=", " ", "5", ";", " ", "/", "/", " ",
      "f", "i", "v", "e">>

IntLineTokens ==
    << <<"int", "keyword">>, <<" ", "default">>, <<"x", "default">>,
       <<" ", "default">>, <<"=", "default">>, <<" ", "default">>,
       <<"5", "number">>, <<";", "default">>, <<" ", "default">>,
       <<"// five", "comment">> >>

\* C11: on the line  int x = 5; // five  the tokens drawn are at every
\* moment the first ones of the ten tokens Keyword int, Default space,
\* Default x, Default space, Default =, Default space, Number 5, Default ;,
\* Default space, Comment // five, and all ten when the line is finished;
\* and on every line a Default token that does not begin an identifier is
\* one character long.
C11_IntLineTokens ==
    /\ line = IntLine =>
          /\ Len(drawn) <= Len(IntLineTokens)
          /\ TokensDrawn = SubSeq(IntLineTokens, 1, Len(drawn))
          /\ i = Len(line) => TokensDrawn = IntLineTokens
    /\ \A n \in 1..Len(drawn) :
          (/\ drawn[n].color = "default"
           /\ ~IsIdentStart(CharAt(line, drawn[n].x)))
          => drawn[n].text = Join(<<CharAt(line, drawn[n].x)>>)

\* the line  int x = 5; // five  finished, ten tokens drawn
C11_Witness ==
    /\ line = IntLine
    /\ i = Len(line)
    /\ Len(drawn) = 10
    /\ drawn[10].color = "comment"

(***************************************************************************)
(* More properties of parseContent                                         *)
(***************************************************************************)
RECURSIVE JoinLines(_)
JoinLines(ls) ==
    IF ls = <<>> THEN <<>>
    ELSE IF Len(ls) = 1 THEN ls[1]
    ELSE ls[1] \o <<"\n">> \o JoinLines(Tail(ls))

\* a line that is empty or holds only white space
IsBlankLine(l) == \A k \in 1..Len(l) : IsSpace(l[k])

\* the indices of the lines of s that are not blank
NonBlankLines(s) ==
    { k \in 1..Len(SplitLines(s)) : ~IsBlankLine(SplitLines(s)[k]) }

\* s without its leading and its trailing blank lines
StripBlankLines(s) ==
    IF NonBlankLines(s) = {} THEN <<>>
    ELSE JoinLines(SubSeq(SplitLines(s), MinOf(NonBlankLines(s)),
                          MaxOf(NonBlankLines(s))))

\* the content of the fence whose opener is at index p: the text after the
\* end of the opening line up to the closing fence
FencedContent(s, p) ==
    Substring(s, MinOf(OpenerNewlines(s, p)) + 1, MinOf(Closers(s, p)))

\* a step of the loop that pushes a code block
PushesCode ==
    /\ parsePc = "loop"
    /\ Len(blocks') > Len(blocks)
    /\ blocks'[Len(blocks')].type = "code"

\* C12: every code block pushed holds the content of the fence just matched
\* with each tab replaced by four spaces and with its leading and trailing
\* blank lines (empty or only white space) removed, so that it has as many
\* lines as there are from the first to the last line of the fence that is
\* not blank.
C12_CodeContent ==
    [][ PushesCode =>
          LET p == MinOf(FenceStarts(cleanedText, lastIndex))
              fenced == ExpandTabs(FencedContent(cleanedText, p))
              content == blocks'[Len(blocks')].content
          IN  /\ content = StripBlankLines(fenced)
              /\ Len(SplitLines(content))
                   = MaxOf(NonBlankLines(fenced)) - MinOf(NonBlankLines(fenced)) + 1
      ]_vars

\* C13: no block pushed is empty: the content of every block, text or code,
\* has something left after its white space is trimmed, so a fence that holds
\* only white space gives no code block.
C13_NoEmptyBlock ==
    \A k \in 1..Len(blocks) : Trim(blocks[k].content) # <<>>

(***************************************************************************)
(* More properties of generatePdf                                          *)
(***************************************************************************)
\* the sum of height + spacing over the first k blocks of bs
RECURSIVE HeightsBefore(_, _, _)
HeightsBefore(bs, k, spacing) ==
    IF k = 0 THEN 0
    ELSE HeightsBefore(bs, k - 1, spacing) + bs[k].height + spacing

\* the step of generatePdf that draws the blocks of the plan just returned
DrawsPlan == pdfPc = "layout" /\ layoutPc = "returned" /\ pdfPc' = "page"

\* C14: when the plan returned for a page fits (its measured total is at
\* most the available height), the blocks drawn on the page are the blocks
\* of the plan in their order, block k with its top at the margin plus the
\* heights and spacings of the blocks before it, no block reaching into the
\* next one, and the bottom of the last one not below pageHeight - margin.
C14_BlocksStacked ==
    [][ (DrawsPlan /\ measured.total <= maxHeight) =>
          LET placed == doc'[Len(doc')].blocks
              plan == layout.blocks
          IN  /\ Len(placed) = Len(plan)
              /\ \A k \in 1..Len(placed) :
                    /\ placed[k].content = plan[k].content
                    /\ placed[k].lines = plan[k].lines
                    /\ placed[k].height = plan[k].height
                    /\ placed[k].y = Margin * UnitsPerPt
                                      + HeightsBefore(plan, k - 1, layout.spacing)
                    /\ k < Len(placed) =>
                          /\ placed[k + 1].y
                               = placed[k].y + placed[k].height + layout.spacing
                          /\ placed[k].y + placed[k].height <= placed[k + 1].y
                    /\ placed[k].y + placed[k].height
                          <= PageHeight - Margin * UnitsPerPt
      ]_vars

\* a page of three blocks has been drawn, each below the one before, the
\* last one ending above the bottom margin
C14_Witness ==
    /\ pdfPc = "page"
    /\ pageIndex = Len(doc)
    /\ Len(doc[Len(doc)].blocks) = 3
    /\ doc[Len(doc)].blocks[1].y = Margin * UnitsPerPt
    /\ doc[Len(doc)].blocks[2].y > doc[Len(doc)].blocks[1].y
    /\ doc[Len(doc)].blocks[3].y > doc[Len(doc)].blocks[2].y
    /\ doc[Len(doc)].blocks[3].y + doc[Len(doc)].blocks[3].height
         <= PageHeight - Margin * UnitsPerPt

(***************************************************************************)
(* More properties of renderCodeLine: identifiers                          *)
(***************************************************************************)
\* the loop is at a character that starts an identifier
AtIdentifier == i < Len(line) /\ IsIdentStart(CharAt(line, i))

\* the class of the word line[from..to): Keyword if it is in the keyword
\* set, else FunctionName if the next character that is no white space is
\* an opening parenthesis, else Default
WordClass(s, from, to) ==
    IF Join(Substring(s, from, to)) \in KEYWORDS THEN "keyword"
    ELSE IF CharAt(s, SpaceEnd(s, to)) = "(" THEN "function"
    ELSE "default"

\* token n of drawn is an identifier followed, after white space or none,
\* by an opening parenthesis
BeforeParenthesis(n) ==
    /\ IsIdentStart(CharAt(line, drawn[n].x))
    /\ CharAt(line, SpaceEnd(line, WordEnd(line, drawn[n].x))) = "("

\* C15: at an identifier start one token is drawn: the maximal run of
\* letters, digits and underscores, as Keyword if it is in the keyword set
\* (also before a parenthesis), else as FunctionName if the next character
\* that is no white space is an opening parenthesis, else as Default; the
\* loop goes on right after the run, and the white space and the parenthesis
\* looked at are drawn after it, each as a Default token of one character.
C15_Identifier ==
    /\ [][ AtIdentifier =>
              /\ i' = WordEnd(line, i)
              /\ drawn' = Append(drawn,
                              [text |-> Join(Substring(line, i, WordEnd(line, i))),
                               color |-> WordClass(line, i, WordEnd(line, i)),
                               x |-> x])
         ]_vars
    /\ [](\A n \in 1..Len(drawn) :
             BeforeParenthesis(n) =>
                LET e == WordEnd(line, drawn[n].x)
                IN  \A k \in 0..(SpaceEnd(line, e) - e) :
                       n + 1 + k <= Len(drawn) =>
                          drawn[n + 1 + k]
                            = [text |-> Join(<<CharAt(line, e + k)>>),
                               color |-> "default", x |-> e + k])

\* a finished line with the keyword sizeof right before a parenthesis and a
\* function name, a space and a parenthesis
C15_Witness ==
    /\ i = Len(line)
    /\ \E n \in 1..(Len(drawn) - 1) :
          /\ drawn[n].text = "sizeof"
          /\ drawn[n].color = "keyword"
          /\ drawn[n + 1].text = "("
    /\ \E n \in 1..(Len(drawn) - 2) :
          /\ drawn[n].color = "function"
          /\ drawn[n + 1].text = " "
          /\ drawn[n + 2].text = "("
          /\ drawn[n + 2].color = "default"

(***************************************************************************)
(* More properties of calculateLayout                                      *)
(***************************************************************************)
\* the answer of the oracle at the scale returned: the last one given
LastAnswer == oracle[Len(oracle)]

\* C16: the plan returned goes with the one scale returned: its blocks are
\* the input blocks, as many and in the same order; the lines of each are
\* the ones the oracle gave at the returned scale and its height is the
\* number of these lines times base size times scale times 1.35; the font
\* sizes are 11 and 9.5 times the scale and the spacing 14 times the scale.
C16_PlanAtReturnedScale ==
    layoutPc = "returned" =>
        LET h == Hundredths(layout.scale)
        IN  /\ layout.scale = scale
            /\ layout.scale = ScaleAt(Len(oracle))
            /\ Len(layout.blocks) = Len(layoutBlocks)
            /\ \A k \in 1..Len(layout.blocks) :
                  LET b == layout.blocks[k]
                      base == IF b.type = "code" THEN 95 ELSE 110
                  IN  /\ b.type = layoutBlocks[k].type
                      /\ b.content = layoutBlocks[k].content
                      /\ b.lines = BlockLines(layoutBlocks[k], LastAnswer)
                      /\ b.height = Len(b.lines) * base * h * 135
            /\ layout.textFontSize = 110 * h * 100
            /\ layout.codeFontSize = 95 * h * 100
            /\ layout.spacing = 14 * h * 1000
            /\ layout.lineHeightFactor = 135

\* a plan of prose and code returned after at least two shrinks, the
\* oracle's lines at the returned scale other than at scale 1.0
C16_Witness ==
    /\ layoutPc = "returned"
    /\ Len(oracle) >= 3
    /\ Len(layout.blocks) >= 2
    /\ \E k \in 1..Len(layout.blocks) : layout.blocks[k].type = "text"
    /\ \E k \in 1..Len(layout.blocks) :
          /\ layout.blocks[k].type = "code"
          /\ layout.blocks[k].lines # BlockLines(layoutBlocks[k], oracle[1])

\* what the oracle answers to each of the texts cs under width w, put
\* together in the order of cs
WrappedSeparately(cs, w) ==
    Flatten([j \in 1..Len(cs) |-> SplitTextToSize(cs[j], w)])

\* C17: at every scale measured, a code block is passed to the oracle one
\* newline-delimited line of its content at a time, in the order of the
\* source, and its lines are the answers put together in that order, so no
\* line holds text of two source lines; a text block is passed whole in one
\* call and its lines are the answer to that call.
C17_CodeWrappedPerLine ==
    (layoutPc \in {"loop", "returned"}) =>
        /\ Len(measured.blocksWithLines) = Len(layoutBlocks)
        /\ Len(measured.calls) = Len(layoutBlocks)
        /\ \A k \in 1..Len(layoutBlocks) :
              LET b == layoutBlocks[k]
                  lines == measured.blocksWithLines[k].lines
              IN  IF b.type = "code"
                  THEN /\ measured.calls[k] = SplitLines(b.content)
                       /\ lines = WrappedSeparately(SplitLines(b.content),
                                                    LastAnswer.code)
                       /\ \A n \in 1..Len(lines) :
                             \A c \in 1..Len(lines[n]) : lines[n][c] # "\n"
                  ELSE /\ measured.calls[k] = <<b.content>>
                       /\ lines = SplitTextToSize(b.content, LastAnswer.text)

\* measured at a scale below 1.0: a code block of three source lines, one
\* of them wrapped into more than one line
C17_Witness ==
    /\ layoutPc = "loop"
    /\ Len(oracle) >= 2
    /\ \E k \in 1..Len(layoutBlocks) :
          /\ layoutBlocks[k].type = "code"
          /\ Len(measured.calls[k]) = 3
          /\ Len(measured.blocksWithLines[k].lines) > Len(measured.calls[k])

(***************************************************************************)
(* More properties of App                                                  *)
(***************************************************************************)
\* the number of pages a PDF generated from the file list fs has: one per
\* image, or one per page of the PDF document
PagesOf(fs) ==
    IF fs = <<>> THEN 0
    ELSE IF fs[1] = "image" THEN Len(fs)
    ELSE pdfDoc[1]

\* C18: a finalPdfBlob that is not null was generated from the file list
\* as it stands: it has one page per image, or per page of the PDF, of the
\* current list; and every step that changes the file list leaves
\* finalPdfBlob null.
C18_BlobOfCurrentFiles ==
    /\ [](finalPdfBlob # Null =>
             /\ files # <<>>
             /\ Len(finalPdfBlob) = PagesOf(files))
    /\ [][files' # files => finalPdfBlob' = Null]_vars

\* a processing run is under way
RunBusy == status \in {"processing", "generating"}

\* C19: every processing run comes to an end: from status processing or
\* generating the status completed or error is reached, whenever every
\* external call in flight ends with success or failure; no failed call
\* leaves the status at processing.
C19_RunEnds == RunBusy ~> (status \in {"completed", "error"})

(***************************************************************************)
(* Properties of the file list                                             *)
(***************************************************************************)
\* the file list is empty, one PDF of at most 10 pages, or 1 to 10 images
FilesWellFormed ==
    \/ files = <<>>
    \/ files = <<"pdf">> /\ pdfDoc # Null /\ pdfDoc[1] <= 10
    \/ Len(files) \in 1..10 /\ \A k \in 1..Len(files) : files[k] = "image"

\* a step of the upload area: the component is enabled, no handler is at
\* an await, and the list is not cleared
SelectionStep == UploadEnabled /\ appPc = "none" /\ Len(files') >= Len(files)

\* the images of a supported type in the FileList fs
SupportedImages(fs) ==
    { k \in 1..Len(fs) : fs[k] \in {"image/jpeg", "image/png", "image/webp"} }

\* the FileList fs is rejected whole when the list is cur: it would mix PDF
\* and images, it is a PDF with a file selected already or with other files
\* beside it, it has no image of a supported type, or the list is full
RejectedWhole(fs, cur) ==
    \/ fs = <<>>
    \/ cur # <<>> /\ (fs[1] = "application/pdf") # (cur[1] = "pdf")
    \/ fs[1] = "application/pdf" /\ (cur # <<>> \/ Len(fs) > 1)
    \/ fs[1] # "application/pdf" /\ SupportedImages(fs) = {}
    \/ fs[1] # "application/pdf" /\ Len(cur) >= 10

NamedReferences ==
    { [name |-> <<"&", "n", "b", "s", "p", ";">>, char |-> " "],
      [name |-> <<"&", "a", "m", "p", ";">>, char |-> "&"],
      [name |-> <<"&", "l", "t", ";">>, char |-> "<"],
      [name |-> <<"&", "g", "t", ";">>, char |-> ">"],
      [name |-> <<"&", "q", "u", "o", "t", ";">>, char |-> "\""] }

\* The reference of the fixed set that starts at index p of s, as its length
\* and the character it stands for; length 0 when none starts there.
ReferenceOfSet(s, p) ==
    LET here == DropFirst(s, p)
        named == { r \in NamedReferences : StartsWith(here, r.name) }
        dec == ReferenceAt(s, p, <<"&", "#">>, Digit)
        hex == ReferenceAt(s, p, <<"&", "#", "x">>, HexDigit)
    IN  IF named # {}
        THEN LET r == CHOOSE r \in named : TRUE
             IN  [len |-> Len(r.name), char |-> r.char]
        ELSE IF dec > 0
        THEN [len |-> dec + 3,
              char |-> CharOfCode(NumberValue(SubSeq(here, 3, dec + 2), 10, 0))]
        ELSE IF hex > 0
        THEN [len |-> hex + 4,
              char |-> CharOfCode(NumberValue(SubSeq(here, 4, hex + 3), 16, 0))]
        ELSE [len |-> 0, char |-> ""]

\* s from index p on with each reference of the fixed set decoded once, in
\* one pass from left to right, everything else kept as it is
RECURSIVE DecodeOnce(_, _)
DecodeOnce(s, p) ==
    IF p >= Len(s) THEN <<>>
    ELSE LET r == ReferenceOfSet(s, p)
         IN  IF r.len > 0 THEN <<r.char>> \o DecodeOnce(s, p + r.len)
             ELSE <<s[p + 1]>> \o DecodeOnce(s, p + 1)

\* C21: cleanText decodes each character reference of the text once: its
\* result is the text with every reference of the fixed set replaced by its
\* character in one pass, no character so produced being read again as part
\* of a reference, and every other &...; sequence kept unchanged.
C21_DecodedOnce ==
    parsePc = "loop" => cleanedText = DecodeOnce(text, 0)

=============================================================================
